---- MODULE Spec2Model ----
(***************************************************************************)
(* Model of the store context of the boutique application                  *)
(* (src/src/context/StoreContext.tsx): rental reservation over a per-day   *)
(* calendar, availability queries and the partial-payment balance.         *)
(*                                                                         *)
(* The backing store (supabase tables) is the variable db; every client    *)
(* (a browser holding a StoreProvider) keeps React state in mem[c].        *)
(* A Date is an instant counted in ticks of UTC time, TicksPerDay ticks to *)
(* a day; the browser's timezone offset tz (ticks east of UTC) is fixed     *)
(* for a behaviour.  Amounts are integers.  The customers table and the    *)
(* descriptive columns (names, agent, notes, discount) are left out: no    *)
(* modelled operation reads them; of a payments row the link, the amount   *)
(* and the remainder are kept.                                             *)
(*                                                                         *)
(* ret[c] is what the last call of client c returned, in the specification *)
(* where calls of two clients interleave; pc[c] is the position of c in     *)
(* such a call.  hist is a history variable: the amountPaid each record    *)
(* was requested with, and the records a payment update has written.       *)
(***************************************************************************)
EXTENDS Integers, Sequences, FiniteSets, TLC

VARIABLES db, mem, ret, pc, tz, hist

vars == <<db, mem, ret, pc, tz, hist>>

----------------------------------------------------------------------------
(* Bounds of the model *)

LastDay == 1
TicksPerDay == 2
DaysInMonth == 2
MaxRentals == 2
MaxTransactions == 1
MaxTotal == 2
MaxPaid == 4
InitStock == 2
MaxDue == 3
MaxPayments == 1
MaxStock == 3

Products == {"P1", "P2"}
Clients == {"c1", "c2"}
Days == 0..LastDay
Instants == 0..((LastDay + 1) * TicksPerDay - 1)
TimeZones == {-1, 0, 1}
RentalStatuses == {"active", "returned", "cancelled", "overdue"}

----------------------------------------------------------------------------
(* JavaScript helpers *)

Max(a, b) == IF a >= b THEN a ELSE b

\* x || y on numbers: 0 (like undefined and null) is falsy
OrElse(x, y) == IF x # 0 THEN x ELSE y

\* x || y on strings: '' (like undefined and null) is falsy
OrElseStr(x, y) == IF x # "" THEN x ELSE y

\* date.toISOString().split('T')[0]: the UTC calendar day of an instant
ISODate(t) == t \div TicksPerDay

\* new Date('YYYY-MM-DD'): a date-only string is parsed as UTC midnight
ParseISODate(d) == d * TicksPerDay

\* date.toDateString(), getFullYear(), getMonth(), getDate(): local calendar day
LocalDay(t, zone) == (t + zone) \div TicksPerDay

\* new Date(year, month, day): local midnight of a calendar day
LocalMidnight(d, zone) == d * TicksPerDay - zone

\* date.setDate(date.getDate() + 1): one local calendar day later (no DST shift)
NextDay(t) == t + TicksPerDay

\* month.getFullYear(), month.getMonth(): the local month of an instant
MonthOf(t, zone) == LocalDay(t, zone) \div DaysInMonth

FirstDayOfMonth(m) == m * DaysInMonth

LastDayOfMonth(m) == (m + 1) * DaysInMonth - 1

----------------------------------------------------------------------------
(* Rows read from the store into React state *)

FormatTransaction(item) ==
  [type |-> item.type, productId |-> item.product_id, quantity |-> item.quantity,
   totalAmount |-> item.total_amount,
   amountPaid |-> OrElse(item.amount_paid, item.total_amount),
   remainingAmount |-> OrElse(item.remaining_amount, 0),
   paymentStatus |-> OrElseStr(item.payment_status, "completed")]

FormatRental(item) ==
  [productId |-> item.product_id,
   rentalStartDate |-> ParseISODate(item.rental_start_date),
   rentalEndDate |-> ParseISODate(item.rental_end_date),
   totalAmount |-> item.total_amount,
   amountPaid |-> OrElse(item.amount_paid, item.total_amount),
   remainingAmount |-> OrElse(item.remaining_amount, 0),
   paymentStatus |-> OrElseStr(item.payment_status, "completed"),
   status |-> item.status]

\* loadProducts / loadTransactions / loadRentals: on a query error the state is kept
LoadProducts(m, d, ok) ==
  IF ok THEN [m EXCEPT !.products = d.products] ELSE m

LoadTransactions(m, d, ok) ==
  IF ok THEN [m EXCEPT !.transactions =
                 [i \in DOMAIN d.transactions |-> FormatTransaction(d.transactions[i])]]
  ELSE m

LoadRentals(m, d, ok) ==
  IF ok THEN [m EXCEPT !.rentals =
                 [i \in DOMAIN d.rentals |-> FormatRental(d.rentals[i])]]
  ELSE m

FormatPayment(item) ==
  [transactionId |-> item.transaction_id, rentalId |-> item.rental_id,
   amountPaid |-> item.amount_paid, remainingAmount |-> item.remaining_amount]

\* loadPayments
LoadPayments(m, d, ok) ==
  IF ok THEN [m EXCEPT !.payments =
                 [i \in DOMAIN d.payments |-> FormatPayment(d.payments[i])]]
  ELSE m

----------------------------------------------------------------------------
(* Availability engine *)

CheckProductAvailabilityMutExclusiveEnd(d, productId, startDate, endDate, ok) ==
  LET data == {x \in d.calendar :
                 /\ x.product_id = productId
                 /\ x.status = "reserved"
                 /\ x.reserved_date >= ISODate(startDate)
                 /\ x.reserved_date < ISODate(endDate)}
  IN  IF ~ok THEN FALSE ELSE data = {}

CheckProductAvailabilityMutFailOpen(d, productId, startDate, endDate, ok) ==
  LET data == {x \in d.calendar :
                 /\ x.product_id = productId
                 /\ x.status = "reserved"
                 /\ x.reserved_date >= ISODate(startDate)
                 /\ x.reserved_date <= ISODate(endDate)}
  IN  IF ~ok THEN TRUE ELSE data = {}

\* checkProductAvailability: the query result is empty; FALSE on a query error
CheckProductAvailability(d, productId, startDate, endDate, ok) ==
  LET data == {x \in d.calendar :
                 /\ x.product_id = productId
                 /\ x.status = "reserved"
                 /\ x.reserved_date >= ISODate(startDate)
                 /\ x.reserved_date <= ISODate(endDate)}
  IN  IF ~ok THEN FALSE ELSE data = {}

RECURSIVE AvailableDates(_, _, _, _)
\* the while loop of getProductAvailability over the local days of the month
AvailableDates(currentDate, endOfMonth, reservedDates, zone) ==
  IF currentDate <= endOfMonth
  THEN (IF \E r \in DOMAIN reservedDates :
              LocalDay(reservedDates[r], zone) = LocalDay(currentDate, zone)
        THEN {} ELSE {currentDate})
       \cup AvailableDates(NextDay(currentDate), endOfMonth, reservedDates, zone)
  ELSE {}

\* getProductAvailability: reservedDates is indexed by the fetched row (an array
\* with one element per row), availableDates is the set of pushed instants
GetProductAvailability(d, productId, month, zone, ok) ==
  LET m == MonthOf(month, zone)
      startOfMonth == LocalMidnight(FirstDayOfMonth(m), zone)
      endOfMonth == LocalMidnight(LastDayOfMonth(m), zone)
      data == {x \in d.calendar :
                 /\ x.product_id = productId
                 /\ x.reserved_date >= ISODate(startOfMonth)
                 /\ x.reserved_date <= ISODate(endOfMonth)}
      reserved == {x \in data : x.status = "reserved"}
      reservedDates == [x \in reserved |-> ParseISODate(x.reserved_date)]
      availableDates == AvailableDates(startOfMonth, endOfMonth, reservedDates, zone)
  IN  IF ~ok
      THEN [availableDates |-> {}, reservedDates |-> <<>>, isAvailable |-> TRUE]
      ELSE [availableDates |-> availableDates, reservedDates |-> reservedDates,
            isAvailable |-> availableDates # {}]

----------------------------------------------------------------------------
(* Reservation committer *)

\* the row addRental inserts into rentals
RentalRow(rentalData) ==
  [product_id |-> rentalData.productId,
   rental_start_date |-> ISODate(rentalData.rentalStartDate),
   rental_end_date |-> ISODate(rentalData.rentalEndDate),
   total_amount |-> rentalData.totalAmount,
   amount_paid |-> OrElse(rentalData.amountPaid, rentalData.totalAmount),
   remaining_amount |-> OrElse(rentalData.remainingAmount, 0),
   payment_status |-> OrElseStr(rentalData.paymentStatus, "completed"),
   status |-> rentalData.status]

InsertRental(d, rentalData) ==
  [d EXCEPT !.rentals = Append(d.rentals, RentalRow(rentalData))]

RECURSIVE RentalDates(_, _)
\* the while loop of addRental: one date string per iteration
RentalDates(currentDate, rentalEndDate) ==
  IF currentDate <= rentalEndDate
  THEN {ISODate(currentDate)} \cup RentalDates(NextDay(currentDate), rentalEndDate)
  ELSE {}

CalendarRows(rentalData, id) ==
  {[product_id |-> rentalData.productId, rental_id |-> id,
    reserved_date |-> day, status |-> "reserved"] :
       day \in RentalDates(rentalData.rentalStartDate, rentalData.rentalEndDate)}

\* the calendar insert; when it fails the error is logged and nothing is inserted
InsertCalendar(d, dates, ok) ==
  IF dates # {} /\ ok THEN [d EXCEPT !.calendar = d.calendar \cup dates] ELSE d

\* the rentals update of updateRentalStatus
SetRentalStatus(d, id, status) ==
  IF id \in DOMAIN d.rentals
  THEN [d EXCEPT !.rentals[id].status = status]
  ELSE d

ReleaseCalendarMutByProduct(d, id, status, ok) ==
  IF status = "returned" /\ ok /\ id \in DOMAIN d.rentals
  THEN [d EXCEPT !.calendar =
          {[x EXCEPT !.status = IF x.product_id = d.rentals[id].product_id
                                THEN "available" ELSE x.status] :
             x \in d.calendar}]
  ELSE d

\* the rental_calendar update of updateRentalStatus; a failure is only logged
ReleaseCalendar(d, id, status, ok) ==
  IF status = "returned" /\ ok
  THEN [d EXCEPT !.calendar =
          {[x EXCEPT !.status = IF x.rental_id = id THEN "available" ELSE x.status] :
             x \in d.calendar}]
  ELSE d

----------------------------------------------------------------------------
(* Stock adjuster and payment ledger *)

\* the row addTransaction inserts into transactions
TransactionRow(transactionData) ==
  [type |-> transactionData.type,
   product_id |-> transactionData.productId,
   quantity |-> transactionData.quantity,
   total_amount |-> transactionData.totalAmount,
   amount_paid |-> OrElse(transactionData.amountPaid, transactionData.totalAmount),
   remaining_amount |-> OrElse(transactionData.remainingAmount, 0),
   payment_status |-> OrElseStr(transactionData.paymentStatus, "completed")]

InsertTransaction(d, transactionData) ==
  [d EXCEPT !.transactions = Append(d.transactions, TransactionRow(transactionData))]

UpdateStockRunMutNoFloor(d, m, productId, quantity, f) ==
  IF productId \notin DOMAIN m.products
  THEN [db |-> d, mem |-> m, threw |-> FALSE]
  ELSE LET newStock == m.products[productId] + quantity
           d1 == [d EXCEPT !.products[productId] = newStock]
       IN  IF "stock" \in f
           THEN [db |-> d, mem |-> m, threw |-> TRUE]
           ELSE [db |-> d1, mem |-> LoadProducts(m, d1, "loadProducts" \notin f),
                 threw |-> FALSE]

\* updateStock run by a client with React state m: the new stock is computed
\* from the in-memory product; threw tells whether the update error was thrown
UpdateStockRun(d, m, productId, quantity, f) ==
  IF productId \notin DOMAIN m.products
  THEN [db |-> d, mem |-> m, threw |-> FALSE]
  ELSE LET newStock == Max(0, m.products[productId] + quantity)
           d1 == [d EXCEPT !.products[productId] = newStock]
       IN  IF "stock" \in f
           THEN [db |-> d, mem |-> m, threw |-> TRUE]
           ELSE [db |-> d1, mem |-> LoadProducts(m, d1, "loadProducts" \notin f),
                 threw |-> FALSE]

PaymentUpdateMutNoClamp(record, amountPaid) ==
  LET totalPaid == OrElse(record.amountPaid, 0) + amountPaid
      remaining == record.totalAmount - totalPaid
      paymentStatus == IF remaining = 0 THEN "completed"
                       ELSE IF totalPaid > 0 THEN "partial" ELSE "pending"
  IN  [amount_paid |-> totalPaid, remaining_amount |-> remaining,
       payment_status |-> paymentStatus]

PaymentUpdateMutReplace(record, amountPaid) ==
  LET totalPaid == amountPaid
      remaining == Max(0, record.totalAmount - totalPaid)
      paymentStatus == IF remaining = 0 THEN "completed"
                       ELSE IF totalPaid > 0 THEN "partial" ELSE "pending"
  IN  [amount_paid |-> totalPaid, remaining_amount |-> remaining,
       payment_status |-> paymentStatus]

\* the fields updateTransactionPayment and updateRentalPayment write, computed
\* from the record found in React state and the amount received
PaymentUpdate(record, amountPaid) ==
  LET totalPaid == OrElse(record.amountPaid, 0) + amountPaid
      remaining == Max(0, record.totalAmount - totalPaid)
      paymentStatus == IF remaining = 0 THEN "completed"
                       ELSE IF totalPaid > 0 THEN "partial" ELSE "pending"
  IN  [amount_paid |-> totalPaid, remaining_amount |-> remaining,
       payment_status |-> paymentStatus]

\* the row addPayment inserts into payments; an id of 0 is an absent link
PaymentRow(paymentData) ==
  [transaction_id |-> paymentData.transactionId, rental_id |-> paymentData.rentalId,
   amount_paid |-> paymentData.amountPaid,
   remaining_amount |-> paymentData.remainingAmount]

InsertPayment(d, paymentData) ==
  [d EXCEPT !.payments = Append(d.payments, PaymentRow(paymentData))]

\* update(...).eq('id', id): the three payment columns of the row with that id
WritePayment(rows, id, u) ==
  IF id \in DOMAIN rows
  THEN [rows EXCEPT ![id].amount_paid = u.amount_paid,
                    ![id].remaining_amount = u.remaining_amount,
                    ![id].payment_status = u.payment_status]
  ELSE rows

----------------------------------------------------------------------------
(* Handlers, from call to return, run by a client with React state m against *)
(* store d.  f is the set of store calls that fail during the run.           *)

\* addRental
AddRentalRun(d, m, rentalData, f) ==
  LET isAvailable == CheckProductAvailability(d, rentalData.productId,
                        rentalData.rentalStartDate, rentalData.rentalEndDate,
                        "query" \notin f)
      id == Len(d.rentals) + 1
      d1 == InsertRental(d, rentalData)
      d2 == InsertCalendar(d1, CalendarRows(rentalData, id), "calendar" \notin f)
  IN  IF ~isAvailable
      THEN [db |-> d, mem |-> m,
            ret |-> [op |-> "addRental", ok |-> FALSE, id |-> 0, error |-> "unavailable"]]
      ELSE IF "insert" \in f
      THEN [db |-> d, mem |-> m,
            ret |-> [op |-> "addRental", ok |-> FALSE, id |-> 0, error |-> "store"]]
      ELSE [db |-> d2, mem |-> LoadRentals(m, d2, "load" \notin f),
            ret |-> [op |-> "addRental", ok |-> TRUE, id |-> id, error |-> ""]]

\* updateRentalStatus
UpdateRentalStatusRun(d, m, id, status, f) ==
  LET d1 == SetRentalStatus(d, id, status)
      d2 == ReleaseCalendar(d1, id, status, "calendar" \notin f)
  IN  IF "update" \in f
      THEN [db |-> d, mem |-> m,
            ret |-> [op |-> "updateRentalStatus", ok |-> FALSE, id |-> id, error |-> "store"]]
      ELSE [db |-> d2, mem |-> LoadRentals(m, d2, "load" \notin f),
            ret |-> [op |-> "updateRentalStatus", ok |-> TRUE, id |-> id, error |-> ""]]

\* addTransaction; the customer upsert and loadCustomers touch nothing modelled
AddTransactionRun(d, m, transactionData, f) ==
  LET id == Len(d.transactions) + 1
      d1 == InsertTransaction(d, transactionData)
      s == IF transactionData.type = "sale"
           THEN UpdateStockRun(d1, m, transactionData.productId,
                               0 - transactionData.quantity, f)
           ELSE [db |-> d1, mem |-> m, threw |-> FALSE]
  IN  IF "insert" \in f
      THEN [db |-> d, mem |-> m,
            ret |-> [op |-> "addTransaction", ok |-> FALSE, id |-> 0, error |-> "store"]]
      ELSE IF s.threw
      THEN [db |-> s.db, mem |-> s.mem,
            ret |-> [op |-> "addTransaction", ok |-> FALSE, id |-> 0, error |-> "store"]]
      ELSE [db |-> s.db, mem |-> LoadTransactions(s.mem, s.db, "load" \notin f),
            ret |-> [op |-> "addTransaction", ok |-> TRUE, id |-> id, error |-> ""]]

UpdateTransactionPaymentRunMutNotFoundThrows(d, m, transactionId, amountPaid, f) ==
  IF transactionId \notin DOMAIN m.transactions
  THEN [db |-> d, mem |-> m,
        ret |-> [op |-> "updateTransactionPayment", ok |-> FALSE, found |-> FALSE,
                 error |-> "notfound"]]
  ELSE LET u == PaymentUpdate(m.transactions[transactionId], amountPaid)
           d1 == [d EXCEPT !.transactions = WritePayment(d.transactions, transactionId, u)]
       IN  IF "update" \in f
           THEN [db |-> d, mem |-> m,
                 ret |-> [op |-> "updateTransactionPayment", ok |-> FALSE,
                          found |-> TRUE, error |-> "store"]]
           ELSE [db |-> d1, mem |-> LoadTransactions(m, d1, "load" \notin f),
                 ret |-> [op |-> "updateTransactionPayment", ok |-> TRUE,
                          found |-> TRUE, error |-> ""]]

\* updateTransactionPayment: a silent return when the id is not in React state
UpdateTransactionPaymentRun(d, m, transactionId, amountPaid, f) ==
  IF transactionId \notin DOMAIN m.transactions
  THEN [db |-> d, mem |-> m,
        ret |-> [op |-> "updateTransactionPayment", ok |-> TRUE, found |-> FALSE,
                 error |-> ""]]
  ELSE LET u == PaymentUpdate(m.transactions[transactionId], amountPaid)
           d1 == [d EXCEPT !.transactions = WritePayment(d.transactions, transactionId, u)]
       IN  IF "update" \in f
           THEN [db |-> d, mem |-> m,
                 ret |-> [op |-> "updateTransactionPayment", ok |-> FALSE,
                          found |-> TRUE, error |-> "store"]]
           ELSE [db |-> d1, mem |-> LoadTransactions(m, d1, "load" \notin f),
                 ret |-> [op |-> "updateTransactionPayment", ok |-> TRUE,
                          found |-> TRUE, error |-> ""]]

\* updateRentalPayment
UpdateRentalPaymentRun(d, m, rentalId, amountPaid, f) ==
  IF rentalId \notin DOMAIN m.rentals
  THEN [db |-> d, mem |-> m,
        ret |-> [op |-> "updateRentalPayment", ok |-> TRUE, found |-> FALSE,
                 error |-> ""]]
  ELSE LET u == PaymentUpdate(m.rentals[rentalId], amountPaid)
           d1 == [d EXCEPT !.rentals = WritePayment(d.rentals, rentalId, u)]
       IN  IF "update" \in f
           THEN [db |-> d, mem |-> m,
                 ret |-> [op |-> "updateRentalPayment", ok |-> FALSE,
                          found |-> TRUE, error |-> "store"]]
           ELSE [db |-> d1, mem |-> LoadRentals(m, d1, "load" \notin f),
                 ret |-> [op |-> "updateRentalPayment", ok |-> TRUE,
                          found |-> TRUE, error |-> ""]]

\* addPayment: the payments insert, then loadPayments
AddPaymentRun(d, m, paymentData, f) ==
  LET d1 == InsertPayment(d, paymentData)
  IN  IF "insert" \in f
      THEN [db |-> d, mem |-> m,
            ret |-> [op |-> "addPayment", ok |-> FALSE, id |-> 0, error |-> "store"]]
      ELSE [db |-> d1, mem |-> LoadPayments(m, d1, "load" \notin f),
            ret |-> [op |-> "addPayment", ok |-> TRUE, id |-> Len(d1.payments),
                     error |-> ""]]

\* refreshData / loadInitialData: the loads (customers are not modelled)
RefreshDataRun(d, m, f) ==
  LoadPayments(
    LoadRentals(LoadTransactions(LoadProducts(m, d, "loadProducts" \notin f),
                                 d, "load" \notin f),
                d, "load" \notin f),
    d, "load" \notin f)

RECURSIVE Revenue(_, _)
\* the reduce of getStats over the first n fetched transactions
Revenue(rows, n) ==
  IF n = 0 THEN 0
  ELSE Revenue(rows, n - 1) + OrElse(rows[n].amount_paid, rows[n].total_amount)

\* getStats without a date filter, read at the instant now; a failed query
\* yields no rows (data || [])
GetStats(d, m, now, ok) ==
  LET filteredTransactions == IF ok THEN d.transactions ELSE <<>>
      filteredRentals == IF ok THEN d.rentals ELSE <<>>
      activeRentals == Cardinality({i \in DOMAIN filteredRentals :
                                      filteredRentals[i].status = "active"})
  IN  [totalSales |-> Cardinality({i \in DOMAIN filteredTransactions :
                                     filteredTransactions[i].type = "sale"}),
       totalRentals |-> Cardinality({i \in DOMAIN filteredTransactions :
                                       filteredTransactions[i].type = "rental"}),
       revenue |-> Revenue(filteredTransactions, Len(filteredTransactions)),
       lowStockItems |-> Cardinality({p \in DOMAIN m.products : m.products[p] <= 2}),
       totalProducts |-> Cardinality(DOMAIN m.products),
       pendingReturns |-> activeRentals,
       activeRentals |-> activeRentals,
       overdueRentals |-> Cardinality({i \in DOMAIN filteredRentals :
                            /\ filteredRentals[i].status = "active"
                            /\ ParseISODate(filteredRentals[i].rental_end_date) < now})]

----------------------------------------------------------------------------
(* Inputs *)

SeqClients == {"c1"}

\* the payment fields a caller passes with a new record: the remainder and the
\* status that go with the total and the amount received at creation
PaymentFields(total, paid) ==
  LET remaining == Max(0, total - paid)
  IN  [totalAmount |-> total, amountPaid |-> paid, remainingAmount |-> remaining,
       paymentStatus |-> IF remaining = 0 THEN "completed"
                         ELSE IF paid > 0 THEN "partial" ELSE "pending"]

RentalRequest(p, s, e, pay) ==
  [productId |-> p, rentalStartDate |-> s, rentalEndDate |-> e,
   totalAmount |-> pay.totalAmount, amountPaid |-> pay.amountPaid,
   remainingAmount |-> pay.remainingAmount, paymentStatus |-> pay.paymentStatus,
   status |-> "active"]

TransactionRequest(type, p, q, pay) ==
  [type |-> type, productId |-> p, quantity |-> q,
   totalAmount |-> pay.totalAmount, amountPaid |-> pay.amountPaid,
   remainingAmount |-> pay.remainingAmount, paymentStatus |-> pay.paymentStatus]

\* the requests of the reservation specification: any product, any two
\* instants, paid in full
RentalRequests ==
  {RentalRequest(p, s, e, PaymentFields(1, 1)) :
      p \in Products, s \in Instants, e \in Instants}

\* ranges of whole days (UTC midnights), start not after end
WholeDayRequests ==
  {r \in RentalRequests :
     /\ r.rentalStartDate = ParseISODate(ISODate(r.rentalStartDate))
     /\ r.rentalEndDate = ParseISODate(ISODate(r.rentalEndDate))
     /\ r.rentalStartDate <= r.rentalEndDate}

\* the month argument: any instant of the modelled days
MonthInstants == Instants

\* the requests of the payment specification: one product and day, any total,
\* any amount received at creation
Totals == 0..MaxTotal

PayRentalRequests ==
  {RentalRequest("P1", 0, 0, PaymentFields(t, a)) : t \in Totals, a \in Totals}

TransactionRequests ==
  {TransactionRequest(type, "P1", 1, PaymentFields(t, a)) :
      type \in {"sale", "rental"}, t \in Totals, a \in Totals}

PayAmounts == (0 - 1)..MaxTotal

\* the requests of the ledger specification: one transaction of type rental (no
\* stock change), any total due, any amount received at creation up to the total
LedgerRequests ==
  {TransactionRequest("rental", "P1", 1, PaymentFields(t, a)) :
      t \in 1..MaxDue, a \in 0..MaxDue}

LedgerAmounts == 1..MaxDue

\* the rows a caller passes to addPayment, linked to a transaction
PaymentRequests ==
  {[transactionId |-> id, rentalId |-> 0, amountPaid |-> p, remainingAmount |-> r] :
      id \in 1..MaxTransactions, p \in LedgerAmounts, r \in 0..MaxDue}

LedgerFailures == {{}, {"load"}}

AddRentalFailures == {{}, {"query"}, {"insert"}, {"calendar"}}

UpdateRentalStatusFailures == {{}, {"update"}, {"calendar"}}

PaymentFailures == {{}, {"update"}}

AddTransactionFailures == {{}, {"insert"}, {"stock"}}

\* the inputs of the stock specification: restocking and destocking by one, a
\* destocking larger than any stock, sales of up to more than any stock
StockDeltas == {0 - (MaxStock + 1), 0 - 1, 1}

StockQuantities == 1..(MaxStock + 1)

StockRequests ==
  {TransactionRequest(type, "P1", q, PaymentFields(1, 1)) :
      type \in {"sale", "rental"}, q \in StockQuantities}

StockRentalRequests == {RentalRequest("P1", 0, 0, PaymentFields(1, 1))}

UpdateStockFailures == {{}, {"stock"}}

----------------------------------------------------------------------------
(* State after construction: empty React state, a store holding the products *)

EmptyMem == [products |-> <<>>, transactions |-> <<>>, rentals |-> <<>>, payments |-> <<>>]

InitCommon ==
  /\ db = [products |-> [p \in Products |-> InitStock], transactions |-> <<>>,
           rentals |-> <<>>, calendar |-> {}, payments |-> <<>>]
  /\ mem = [c \in Clients |-> EmptyMem]
  /\ ret = [c \in Clients |-> [op |-> "none", ok |-> FALSE, id |-> 0, error |-> ""]]
  /\ pc = [c \in Clients |-> [op |-> "idle"]]
  /\ hist = [requested |-> [transaction |-> <<>>, rental |-> <<>>], paid |-> {}]

\* the reservation and payment specifications run in a UTC browser: none of their
\* handlers reads the timezone
Init ==
  /\ InitCommon
  /\ tz = 0

\* the month specification runs in a browser west of, at, or east of UTC
InitMonth ==
  /\ InitCommon
  /\ tz \in TimeZones

----------------------------------------------------------------------------
(* Actions: one call of a handler, run to completion *)

AddRental(c, rentalData, f) ==
  LET r == AddRentalRun(db, mem[c], rentalData, f)
  IN  /\ pc[c].op = "idle"
      /\ r.ret.ok => Len(db.rentals) < MaxRentals
      /\ db' = r.db
      /\ mem' = [mem EXCEPT ![c] = r.mem]
      /\ hist' = IF r.ret.ok
                 THEN [hist EXCEPT !.requested.rental = Append(@, rentalData.amountPaid)]
                 ELSE hist
      /\ UNCHANGED <<ret, pc, tz>>

UpdateRentalStatus(c, id, status, f) ==
  LET r == UpdateRentalStatusRun(db, mem[c], id, status, f)
  IN  /\ pc[c].op = "idle"
      /\ db' = r.db
      /\ mem' = [mem EXCEPT ![c] = r.mem]
      /\ UNCHANGED <<ret, pc, tz, hist>>

\* the two availability queries read the store and change nothing
CallCheckProductAvailability(c, productId, startDate, endDate, ok) ==
  /\ pc[c].op = "idle"
  /\ CheckProductAvailability(db, productId, startDate, endDate, ok) \in BOOLEAN
  /\ UNCHANGED vars

CallGetProductAvailability(c, productId, month, ok) ==
  /\ pc[c].op = "idle"
  /\ GetProductAvailability(db, productId, month, tz, ok).isAvailable \in BOOLEAN
  /\ UNCHANGED vars

CallGetStats(c, now, ok) ==
  /\ pc[c].op = "idle"
  /\ GetStats(db, mem[c], now, ok).overdueRentals \in Nat
  /\ UNCHANGED vars

AddTransaction(c, transactionData, f) ==
  LET r == AddTransactionRun(db, mem[c], transactionData, f)
  IN  /\ pc[c].op = "idle"
      /\ Len(r.db.transactions) <= MaxTransactions
      /\ db' = r.db
      /\ mem' = [mem EXCEPT ![c] = r.mem]
      /\ hist' = IF Len(r.db.transactions) > Len(db.transactions)
                 THEN [hist EXCEPT !.requested.transaction =
                                      Append(@, transactionData.amountPaid)]
                 ELSE hist
      /\ UNCHANGED <<ret, pc, tz>>

UpdateTransactionPayment(c, transactionId, amountPaid, f) ==
  LET r == UpdateTransactionPaymentRun(db, mem[c], transactionId, amountPaid, f)
  IN  /\ pc[c].op = "idle"
      /\ \A i \in DOMAIN r.db.transactions :
            r.db.transactions[i].amount_paid \in (0 - 1)..MaxPaid
      /\ db' = r.db
      /\ mem' = [mem EXCEPT ![c] = r.mem]
      /\ hist' = IF r.ret.ok /\ r.ret.found
                 THEN [hist EXCEPT !.paid = @ \cup {<<"transaction", transactionId>>}]
                 ELSE hist
      /\ UNCHANGED <<ret, pc, tz>>

UpdateRentalPayment(c, rentalId, amountPaid, f) ==
  LET r == UpdateRentalPaymentRun(db, mem[c], rentalId, amountPaid, f)
  IN  /\ pc[c].op = "idle"
      /\ \A i \in DOMAIN r.db.rentals :
            r.db.rentals[i].amount_paid \in (0 - 1)..MaxPaid
      /\ db' = r.db
      /\ mem' = [mem EXCEPT ![c] = r.mem]
      /\ hist' = IF r.ret.ok /\ r.ret.found
                 THEN [hist EXCEPT !.paid = @ \cup {<<"rental", rentalId>>}]
                 ELSE hist
      /\ UNCHANGED <<ret, pc, tz>>

AddPayment(c, paymentData, f) ==
  LET r == AddPaymentRun(db, mem[c], paymentData, f)
  IN  /\ pc[c].op = "idle"
      /\ Len(r.db.payments) <= MaxPayments
      /\ db' = r.db
      /\ mem' = [mem EXCEPT ![c] = r.mem]
      /\ UNCHANGED <<ret, pc, tz, hist>>

\* updateStock called on its own; the stock the model follows is capped
UpdateStock(c, productId, quantity, f) ==
  LET r == UpdateStockRun(db, mem[c], productId, quantity, f)
  IN  /\ pc[c].op = "idle"
      /\ r.db.products[productId] <= MaxStock
      /\ db' = r.db
      /\ mem' = [mem EXCEPT ![c] = r.mem]
      /\ UNCHANGED <<ret, pc, tz, hist>>

RefreshData(c, f) ==
  /\ pc[c].op = "idle"
  /\ mem' = [mem EXCEPT ![c] = RefreshDataRun(db, mem[c], f)]
  /\ UNCHANGED <<db, ret, pc, tz, hist>>

----------------------------------------------------------------------------
(* Specifications *)

\* Reservation specification: one client, calls one after the other
Next ==
  \/ \E c \in SeqClients, rentalData \in RentalRequests, f \in AddRentalFailures :
       AddRental(c, rentalData, f)
  \/ \E c \in SeqClients, id \in 1..MaxRentals, status \in RentalStatuses,
        f \in UpdateRentalStatusFailures :
       UpdateRentalStatus(c, id, status, f)
  \/ \E c \in SeqClients, p \in Products, s \in Instants, e \in Instants, ok \in BOOLEAN :
       CallCheckProductAvailability(c, p, s, e, ok)
  \/ \E c \in SeqClients, now \in Instants, ok \in BOOLEAN : CallGetStats(c, now, ok)

Spec == Init /\ [][Next]_vars

\* Month specification: rentals over whole days, returns, and the month query,
\* in any timezone
NextMonth ==
  \/ \E c \in SeqClients, rentalData \in WholeDayRequests :
       AddRental(c, rentalData, {})
  \/ \E c \in SeqClients, id \in 1..MaxRentals :
       UpdateRentalStatus(c, id, "returned", {})
  \/ \E c \in SeqClients, p \in Products, month \in MonthInstants, ok \in BOOLEAN :
       CallGetProductAvailability(c, p, month, ok)

SpecMonth == InitMonth /\ [][NextMonth]_vars

\* Payment specification: one client creates records and applies payments
NextPay ==
  \/ \E c \in SeqClients : RefreshData(c, {})
  \/ \E c \in SeqClients, transactionData \in TransactionRequests,
        f \in AddTransactionFailures :
       AddTransaction(c, transactionData, f)
  \/ \E c \in SeqClients, rentalData \in PayRentalRequests :
       AddRental(c, rentalData, {})
  \/ \E c \in SeqClients, id \in 1..MaxTransactions, p \in PayAmounts,
        f \in PaymentFailures :
       UpdateTransactionPayment(c, id, p, f)
  \/ \E c \in SeqClients, id \in 1..MaxRentals, p \in PayAmounts, f \in PaymentFailures :
       UpdateRentalPayment(c, id, p, f)

SpecPay == Init /\ [][NextPay]_vars

\* Ledger specification: two clients, each with its own React state, apply
\* positive payments to one transaction and append payments rows
NextLedger ==
  \/ \E c \in Clients : RefreshData(c, {})
  \/ \E c \in Clients, transactionData \in LedgerRequests :
       AddTransaction(c, transactionData, {})
  \/ \E c \in Clients, id \in 1..MaxTransactions, p \in LedgerAmounts,
        f \in LedgerFailures :
       UpdateTransactionPayment(c, id, p, f)
  \/ \E c \in Clients, paymentData \in PaymentRequests : AddPayment(c, paymentData, {})

SpecLedger == Init /\ [][NextLedger]_vars

\* Stock specification: two clients, each with its own React state, sell, restock
\* and destock one product, while one of them rents it out and takes it back
NextStock ==
  \/ \E c \in Clients : RefreshData(c, {})
  \/ \E c \in Clients, quantity \in StockDeltas, f \in UpdateStockFailures :
       UpdateStock(c, "P1", quantity, f)
  \/ \E c \in Clients, transactionData \in StockRequests, f \in AddTransactionFailures :
       AddTransaction(c, transactionData, f)
  \/ \E c \in SeqClients, rentalData \in StockRentalRequests :
       AddRental(c, rentalData, {})
  \/ \E c \in SeqClients, id \in 1..MaxRentals :
       UpdateRentalStatus(c, id, "returned", {})

SpecStock == Init /\ [][NextStock]_vars

----------------------------------------------------------------------------
(* Two clients whose addRental calls interleave: one action per store call *)

InFlight == {c \in Clients : pc[c].op # "idle"}

\* the availability query of addRental; an unavailable range throws at once
AddRentalCheck(c, rentalData, f) ==
  LET isAvailable == CheckProductAvailability(db, rentalData.productId,
                        rentalData.rentalStartDate, rentalData.rentalEndDate,
                        "query" \notin f)
  IN  /\ pc[c].op = "idle"
      /\ Len(db.rentals) + Cardinality(InFlight) < MaxRentals
      /\ IF isAvailable
         THEN /\ pc' = [pc EXCEPT ![c] = [op |-> "addRental", step |-> "insert",
                                          rentalData |-> rentalData, id |-> 0]]
              /\ UNCHANGED ret
         ELSE /\ ret' = [ret EXCEPT ![c] = [op |-> "addRental", ok |-> FALSE, id |-> 0,
                                            error |-> "unavailable"]]
              /\ UNCHANGED pc
      /\ UNCHANGED <<db, mem, tz, hist>>

\* the rentals insert of addRental
AddRentalInsert(c, f) ==
  /\ pc[c].op = "addRental" /\ pc[c].step = "insert"
  /\ IF "insert" \in f
     THEN /\ ret' = [ret EXCEPT ![c] = [op |-> "addRental", ok |-> FALSE, id |-> 0,
                                        error |-> "store"]]
          /\ pc' = [pc EXCEPT ![c] = [op |-> "idle"]]
          /\ UNCHANGED <<db, hist>>
     ELSE /\ db' = InsertRental(db, pc[c].rentalData)
          /\ pc' = [pc EXCEPT ![c].step = "calendar", ![c].id = Len(db.rentals) + 1]
          /\ hist' = [hist EXCEPT !.requested.rental =
                                     Append(@, pc[c].rentalData.amountPaid)]
          /\ UNCHANGED ret
  /\ UNCHANGED <<mem, tz>>

\* the rental_calendar insert of addRental
AddRentalCalendar(c, f) ==
  /\ pc[c].op = "addRental" /\ pc[c].step = "calendar"
  /\ db' = InsertCalendar(db, CalendarRows(pc[c].rentalData, pc[c].id),
                          "calendar" \notin f)
  /\ pc' = [pc EXCEPT ![c].step = "load"]
  /\ UNCHANGED <<mem, ret, tz, hist>>

\* loadRentals, and the return of the new id
AddRentalLoad(c, f) ==
  /\ pc[c].op = "addRental" /\ pc[c].step = "load"
  /\ mem' = [mem EXCEPT ![c] = LoadRentals(mem[c], db, "load" \notin f)]
  /\ ret' = [ret EXCEPT ![c] = [op |-> "addRental", ok |-> TRUE, id |-> pc[c].id,
                                error |-> ""]]
  /\ pc' = [pc EXCEPT ![c] = [op |-> "idle"]]
  /\ UNCHANGED <<db, tz, hist>>

\* Race specification: every store call succeeds, ranges are whole days
NextRace ==
  \/ \E c \in Clients, rentalData \in WholeDayRequests : AddRentalCheck(c, rentalData, {})
  \/ \E c \in Clients : AddRentalInsert(c, {})
  \/ \E c \in Clients : AddRentalCalendar(c, {})
  \/ \E c \in Clients : AddRentalLoad(c, {})

SpecRace == Init /\ [][NextRace]_vars

----------------------------------------------------------------------------
(* Vocabulary of the properties *)

\* the UTC calendar day an instant falls on
DayOf(t) == CHOOSE d \in (0 - 1)..(LastDay + 1) :
               d * TicksPerDay <= t /\ t < (d + 1) * TicksPerDay

Reserved(cal, p, day) ==
  {x \in cal : x.product_id = p /\ x.reserved_date = day /\ x.status = "reserved"}

Owned(cal, id) == {x \in cal : x.rental_id = id}

\* the inclusive day ranges [a1, a2] and [b1, b2] share a day
Overlap(a1, a2, b1, b2) == \E day \in Days : a1 <= day /\ day <= a2 /\ b1 <= day /\ day <= b2

RowsOverlap(r1, r2) ==
  /\ r1.product_id = r2.product_id
  /\ Overlap(r1.rental_start_date, r1.rental_end_date,
             r2.rental_start_date, r2.rental_end_date)

----------------------------------------------------------------------------
(* Properties *)

\* C1: of two addRental calls on one product with overlapping ranges, issued by
\* two clients whose store calls interleave, at most one returns an id, and no
\* (product, day) ever has two reserved calendar entries.
C1_AtMostOneCommit ==
  /\ \A c1 \in Clients, c2 \in Clients :
        (c1 # c2 /\ ret[c1].ok /\ ret[c2].ok /\ ret[c1].id # ret[c2].id)
           => ~RowsOverlap(db.rentals[ret[c1].id], db.rentals[ret[c2].id])
  /\ \A p \in Products, day \in Days : Cardinality(Reserved(db.calendar, p, day)) <= 1

\* C2: while a rental that addRental committed is active, checkProductAvailability
\* is false for every range of its product sharing a day with the rental's range,
\* and addRental for such a range throws and leaves rentals and rental_calendar
\* as they were.
C2_ConflictAfterCommit ==
  \A id \in DOMAIN db.rentals, s \in Instants, e \in Instants, c \in SeqClients :
     LET row == db.rentals[id]
         run == AddRentalRun(db, mem[c], RentalRequest(row.product_id, s, e,
                                                       PaymentFields(1, 1)), {})
     IN  (/\ row.status = "active"
          /\ DayOf(s) <= DayOf(e)
          /\ Overlap(row.rental_start_date, row.rental_end_date, DayOf(s), DayOf(e)))
         => /\ ~CheckProductAvailability(db, row.product_id, s, e, TRUE)
            /\ ~run.ret.ok
            /\ run.db.rentals = db.rentals
            /\ run.db.calendar = db.calendar

\* C3: every addRental that returns an id leaves, for every day from the start
\* day to the end day, exactly one reserved entry of the product, owned by the
\* new rental, and the new rental owns no entry outside these days.
C3_EntriesCoverRange ==
  [][\A rentalData \in RentalRequests, f \in AddRentalFailures, c \in SeqClients :
       (AddRental(c, rentalData, f) /\ Len(db'.rentals) > Len(db.rentals))
       => LET id == Len(db'.rentals)
              first == DayOf(rentalData.rentalStartDate)
              last == DayOf(rentalData.rentalEndDate)
          IN  /\ \A day \in Days : (first <= day /\ day <= last)
                   => /\ Cardinality(Reserved(db'.calendar, rentalData.productId, day)) = 1
                      /\ \A x \in Reserved(db'.calendar, rentalData.productId, day) :
                            x.rental_id = id
              /\ \A x \in Owned(db'.calendar, id) :
                    first <= x.reserved_date /\ x.reserved_date <= last]_vars

\* C4: every updateRentalStatus(id, 'returned') that returns leaves every entry
\* of the rental available, and a second such call would leave rental_calendar
\* as the first left it.
C4_ReleaseIdempotent ==
  [][\A id \in DOMAIN db.rentals, f \in UpdateRentalStatusFailures, c \in SeqClients :
       (UpdateRentalStatus(c, id, "returned", f) /\ "update" \notin f)
       => /\ \A x \in Owned(db'.calendar, id) : x.status = "available"
          /\ \A f2 \in UpdateRentalStatusFailures :
                UpdateRentalStatusRun(db', mem'[c], id, "returned", f2).db.calendar
                  = db'.calendar]_vars

\* C5: every updateRentalStatus(id, 'cancelled') that returns leaves every entry
\* of the rental available, so that checkProductAvailability reports each of the
\* rental's days free.
C5_CancelReleases ==
  [][\A id \in DOMAIN db.rentals, c \in SeqClients :
       UpdateRentalStatus(c, id, "cancelled", {})
       => /\ \A x \in Owned(db'.calendar, id) : x.status = "available"
          /\ \A x \in Owned(db'.calendar, id) :
                CheckProductAvailability(db', x.product_id,
                   ParseISODate(x.reserved_date), ParseISODate(x.reserved_date),
                   TRUE)]_vars

\* C6: when the query succeeds, checkProductAvailability(p, s, e) is true exactly
\* when no reserved entry of p has a day between the day of s and the day of e,
\* both included; available entries and other products' entries do not count.
C6_RangeFreeIff ==
  \A p \in Products, s \in Instants, e \in Instants :
     CheckProductAvailability(db, p, s, e, TRUE)
       <=> ~\E day \in Days :
              DayOf(s) <= day /\ day <= DayOf(e) /\ Reserved(db.calendar, p, day) # {}

\* C6 witness: a range reported free although it holds an available entry of the
\* product and a reserved entry of another product, and a range reported taken.
C6_Witness ==
  /\ \E p \in Products, s \in Instants, e \in Instants :
        /\ CheckProductAvailability(db, p, s, e, TRUE)
        /\ \E x \in db.calendar :
              /\ x.product_id = p /\ x.status = "available"
              /\ DayOf(s) <= x.reserved_date /\ x.reserved_date <= DayOf(e)
        /\ \E x \in db.calendar :
              /\ x.product_id # p /\ x.status = "reserved"
              /\ DayOf(s) <= x.reserved_date /\ x.reserved_date <= DayOf(e)
  /\ \E p \in Products, s \in Instants, e \in Instants :
        /\ ~CheckProductAvailability(db, p, s, e, TRUE)
        /\ DayOf(s) < DayOf(e)
        /\ Reserved(db.calendar, p, DayOf(s)) = {}

\* C7: when the query succeeds, getProductAvailability splits the days of the
\* month: a day is among reservedDates exactly when a reserved entry exists for
\* it, it is among availableDates otherwise, and the two lists together have as
\* many elements as the month has days.
C7_MonthPartition ==
  \A p \in Products, month \in MonthInstants :
     LET r == GetProductAvailability(db, p, month, tz, TRUE)
         m == LocalDay(month, tz) \div DaysInMonth
         reservedDays == {LocalDay(r.reservedDates[x], tz) : x \in DOMAIN r.reservedDates}
         availableDays == {LocalDay(t, tz) : t \in r.availableDates}
     IN  /\ \A day \in (m * DaysInMonth)..((m + 1) * DaysInMonth - 1) :
              /\ (day \in reservedDays) <=> (Reserved(db.calendar, p, day) # {})
              /\ (day \in availableDays) <=> (day \notin reservedDays)
         /\ Cardinality(DOMAIN r.reservedDates) + Cardinality(r.availableDates)
              = DaysInMonth

\* the three payment columns of a stored row
Balance(row) == <<row.amount_paid, row.remaining_amount, row.payment_status>>

StatusOf(paid, remaining) ==
  IF remaining = 0 THEN "completed" ELSE IF paid > 0 THEN "partial" ELSE "pending"

\* C8: for a record found in React state with amountPaid a and totalAmount t, a
\* payment update of p that returns stores a + p, max(0, t - (a + p)) and the
\* status derived from them; an overpayment stores the uncapped sum with a
\* remainder of 0.
C8_PaymentStored ==
  \A c \in SeqClients, p \in PayAmounts, f \in PaymentFailures :
     /\ \A id \in DOMAIN mem[c].transactions :
           LET a == mem[c].transactions[id].amountPaid
               t == mem[c].transactions[id].totalAmount
               run == UpdateTransactionPaymentRun(db, mem[c], id, p, f)
           IN  (run.ret.ok /\ id \in DOMAIN db.transactions)
               => Balance(run.db.transactions[id])
                    = <<a + p, Max(0, t - (a + p)), StatusOf(a + p, Max(0, t - (a + p)))>>
     /\ \A id \in DOMAIN mem[c].rentals :
           LET a == mem[c].rentals[id].amountPaid
               t == mem[c].rentals[id].totalAmount
               run == UpdateRentalPaymentRun(db, mem[c], id, p, f)
           IN  (run.ret.ok /\ id \in DOMAIN db.rentals)
               => Balance(run.db.rentals[id])
                    = <<a + p, Max(0, t - (a + p)), StatusOf(a + p, Max(0, t - (a + p)))>>

\* C8 witness: a payment update has written an overpayment on a transaction and
\* on a rental: more paid than the total, nothing remaining, completed.
C8_Witness ==
  /\ \E id \in DOMAIN db.transactions :
        /\ <<"transaction", id>> \in hist.paid
        /\ db.transactions[id].amount_paid > db.transactions[id].total_amount
        /\ db.transactions[id].remaining_amount = 0
        /\ db.transactions[id].payment_status = "completed"
  /\ \E id \in DOMAIN db.rentals :
        /\ <<"rental", id>> \in hist.paid
        /\ db.rentals[id].amount_paid > db.rentals[id].total_amount
        /\ db.rentals[id].remaining_amount = 0

\* C9: a transaction created with totalAmount t > 0 and amountPaid 0, reloaded and
\* not yet paid on: a first payment of p, 0 < p < t, stores p, t - p, partial, and
\* a following payment of t - p stores t, 0, completed.
C9_FirstPaymentPartial ==
  \A c \in SeqClients, p \in 1..MaxTotal : \A id \in DOMAIN mem[c].transactions :
     LET t == db.transactions[id].total_amount
         r1 == UpdateTransactionPaymentRun(db, mem[c], id, p, {})
         r2 == UpdateTransactionPaymentRun(r1.db, r1.mem, id, t - p, {})
     IN  (/\ hist.requested.transaction[id] = 0
          /\ <<"transaction", id>> \notin hist.paid
          /\ p < t)
         => /\ Balance(r1.db.transactions[id]) = <<p, t - p, "partial">>
            /\ Balance(r2.db.transactions[id]) = <<t, 0, "completed">>

PaidRows ==
  {db.transactions[k[2]] : k \in {x \in hist.paid : x[1] = "transaction"}}
    \cup {db.rentals[k[2]] : k \in {x \in hist.paid : x[1] = "rental"}}

\* C10 as stated: every record a payment update has written has
\* remainingAmount + amountPaid = totalAmount and remainingAmount >= 0.
C10_SumIsTotal ==
  \A row \in PaidRows :
     /\ row.remaining_amount + row.amount_paid = row.total_amount
     /\ row.remaining_amount >= 0

\* C10 amended: every record a payment update has written has
\* remainingAmount = max(0, totalAmount - amountPaid), so remainingAmount >= 0,
\* and the sum is the total whenever amountPaid <= totalAmount.
C10_RemainderClamped ==
  \A row \in PaidRows :
     /\ row.remaining_amount = Max(0, row.total_amount - row.amount_paid)
     /\ row.remaining_amount >= 0
     /\ row.amount_paid <= row.total_amount
          => row.remaining_amount + row.amount_paid = row.total_amount

\* C10 witness: a written record that is overpaid, and one that is partly paid
C10_Witness ==
  /\ \E row \in PaidRows : row.amount_paid > row.total_amount /\ row.remaining_amount = 0
  /\ \E row \in PaidRows : row.amount_paid > 0 /\ row.remaining_amount > 0

\* C11: from one starting record with totalAmount >= a + b, a payment of a and
\* then, once the first call has returned, a payment of b store the same
\* (amountPaid, remainingAmount, paymentStatus) as one payment of a + b.
C11_PaymentsCompose ==
  \A c \in Clients, a \in LedgerAmounts, b \in LedgerAmounts, f \in LedgerFailures :
     \A id \in DOMAIN mem[c].transactions :
        LET r1 == UpdateTransactionPaymentRun(db, mem[c], id, a, f)
            r2 == UpdateTransactionPaymentRun(r1.db, r1.mem, id, b, {})
            once == UpdateTransactionPaymentRun(db, mem[c], id, a + b, {})
        IN  mem[c].transactions[id].totalAmount >= a + b
            => Balance(r2.db.transactions[id]) = Balance(once.db.transactions[id])

\* pending, partial, completed in their forward order
StatusRank(st) == IF st = "pending" THEN 0 ELSE IF st = "partial" THEN 1 ELSE 2

\* C12: a payment update with a positive amount never moves the stored
\* paymentStatus of a record backwards in the order pending, partial, completed.
C12_StatusForward ==
  [][\A c \in Clients, id \in DOMAIN db.transactions, p \in LedgerAmounts,
        f \in LedgerFailures :
       UpdateTransactionPayment(c, id, p, f)
       => StatusRank(db'.transactions[id].payment_status)
            >= StatusRank(db.transactions[id].payment_status)]_vars

\* C13: when two clients have both loaded a transaction as it is stored, and one
\* applies a payment of a and the other a payment of b, in either order, the
\* stored amountPaid ends at prior + a + b and the stored remainingAmount at
\* max(0, totalAmount - (prior + a + b)).
C13_NoLostPayment ==
  \A c1 \in Clients, c2 \in Clients, a \in LedgerAmounts, b \in LedgerAmounts :
     \A id \in DOMAIN db.transactions :
        LET row == db.transactions[id]
            r1 == UpdateTransactionPaymentRun(db, mem[c1], id, a, {})
            r2 == UpdateTransactionPaymentRun(r1.db, mem[c2], id, b, {})
            sum == row.amount_paid + a + b
        IN  (/\ c1 # c2
             /\ id \in DOMAIN mem[c1].transactions
             /\ id \in DOMAIN mem[c2].transactions
             /\ mem[c1].transactions[id] = FormatTransaction(row)
             /\ mem[c2].transactions[id] = FormatTransaction(row))
            => /\ r2.db.transactions[id].amount_paid = sum
               /\ r2.db.transactions[id].remaining_amount = Max(0, row.total_amount - sum)

\* C14: every payment update that changes a transaction appends exactly one
\* payments row linked to it, holding the amount of the payment and the
\* remainingAmount the transaction is left with.
C14_LedgerRowAppended ==
  [][\A c \in Clients, id \in DOMAIN db.transactions, p \in LedgerAmounts,
        f \in LedgerFailures :
       (UpdateTransactionPayment(c, id, p, f) /\ db'.transactions[id] # db.transactions[id])
       => /\ Len(db'.payments) = Len(db.payments) + 1
          /\ LET row == db'.payments[Len(db'.payments)]
             IN  /\ row.transaction_id = id
                 /\ row.amount_paid = p
                 /\ row.remaining_amount = db'.transactions[id].remaining_amount]_vars

\* C15: a payment update with an amount <= 0 on a record found in React state
\* fails with an error and leaves the stored amountPaid, remainingAmount and
\* paymentStatus of the record as they were.
C15_NonPositiveRejected ==
  [][\A c \in SeqClients, p \in PayAmounts, f \in PaymentFailures :
       /\ \A id \in DOMAIN mem[c].transactions :
             (UpdateTransactionPayment(c, id, p, f) /\ p <= 0)
             => /\ ~UpdateTransactionPaymentRun(db, mem[c], id, p, f).ret.ok
                /\ Balance(db'.transactions[id]) = Balance(db.transactions[id])
       /\ \A id \in DOMAIN mem[c].rentals :
             (UpdateRentalPayment(c, id, p, f) /\ p <= 0)
             => /\ ~UpdateRentalPaymentRun(db, mem[c], id, p, f).ret.ok
                /\ Balance(db'.rentals[id]) = Balance(db.rentals[id])]_vars

\* C16: addRental for a range whose start day is after its end day fails with an
\* error and creates no rentals row and no rental_calendar row.
C16_InvertedRangeRejected ==
  [][\A rentalData \in RentalRequests, f \in AddRentalFailures, c \in SeqClients :
       (/\ AddRental(c, rentalData, f)
        /\ DayOf(rentalData.rentalStartDate) > DayOf(rentalData.rentalEndDate))
       => /\ ~AddRentalRun(db, mem[c], rentalData, f).ret.ok
          /\ db'.rentals = db.rentals
          /\ db'.calendar = db.calendar]_vars

\* C17: the stored status of a rental changes only from active to returned or
\* from active to cancelled; a returned or cancelled rental is never active again.
C17_StatusMachine ==
  [][\A id \in DOMAIN db.rentals :
       db'.rentals[id].status # db.rentals[id].status
       => /\ db.rentals[id].status = "active"
          /\ db'.rentals[id].status \in {"returned", "cancelled"}]_vars

\* C18: getStats counts as overdue exactly the rentals stored as active whose end
\* date is before the instant of the read, and no rentals row is ever stored
\* with status overdue.
C18_OverdueNeverStored ==
  /\ \A c \in SeqClients, now \in Instants :
        GetStats(db, mem[c], now, TRUE).overdueRentals
          = Cardinality({id \in DOMAIN db.rentals :
                           /\ db.rentals[id].status = "active"
                           /\ db.rentals[id].rental_end_date * TicksPerDay < now})
  /\ \A id \in DOMAIN db.rentals : db.rentals[id].status # "overdue"

\* C19: when the rental_calendar insert of addRental fails after the rentals row
\* was inserted, the row stays in the store, the rental owns no entry, and the
\* call does not return as a success.
C19_CalendarFailureReported ==
  [][\A rentalData \in RentalRequests, c \in SeqClients :
       LET id == Len(db.rentals) + 1
       IN  (/\ AddRental(c, rentalData, {"calendar"})
            /\ Len(db'.rentals) > Len(db.rentals)
            /\ CalendarRows(rentalData, id) # {})
           => /\ db'.rentals[id] = RentalRow(rentalData)
              /\ Owned(db'.calendar, id) = {}
              /\ ~AddRentalRun(db, mem[c], rentalData, {"calendar"}).ret.ok]_vars

\* C20: an updateRentalStatus(id, 'returned') that returns without an error
\* leaves no entry of the rental reserved, and one whose rental_calendar update
\* fails returns an error and does not leave the rental returned with entries
\* still reserved.
C20_ReleaseAtomic ==
  [][\A id \in DOMAIN db.rentals, f \in UpdateRentalStatusFailures, c \in SeqClients :
       LET r == UpdateRentalStatusRun(db, mem[c], id, "returned", f)
           stillReserved == {x \in Owned(db'.calendar, id) : x.status = "reserved"}
       IN  UpdateRentalStatus(c, id, "returned", f)
           => /\ r.ret.ok => stillReserved = {}
              /\ ("calendar" \in f /\ Owned(db.calendar, id) # {})
                   => /\ ~r.ret.ok
                      /\ ~(db'.rentals[id].status = "returned" /\ stillReserved # {})]_vars

C22_MonthFailsOpen ==
  \A p \in Products, month \in MonthInstants :
     LET r == GetProductAvailability(db, p, month, tz, FALSE)
         m == MonthOf(month, tz)
     IN  /\ DOMAIN r.reservedDates = {}
         /\ {LocalDay(t, tz) : t \in r.availableDates}
              = FirstDayOfMonth(m)..LastDayOfMonth(m)

\* C23: a payment update whose target id is not found in the caller's React
\* state returns without an error and without a store write: every transaction,
\* rental and payment row, and the React state, are as before, whether or not the
\* store holds a row of that id and whether or not the update would have failed.
C23_NotFoundNoOp ==
  \A c \in Clients, p \in PayAmounts, f \in PaymentFailures :
     /\ \A id \in (1..(MaxTransactions + 1)) \ DOMAIN mem[c].transactions :
           LET run == UpdateTransactionPaymentRun(db, mem[c], id, p, f)
           IN  /\ run.ret.ok
               /\ run.db = db
               /\ run.mem = mem[c]
     /\ \A id \in (1..(MaxRentals + 1)) \ DOMAIN mem[c].rentals :
           LET run == UpdateRentalPaymentRun(db, mem[c], id, p, f)
           IN  /\ run.ret.ok
               /\ run.db = db
               /\ run.mem = mem[c]

\* C23 witness: the store holds a transaction and a rental with money still due
\* that a client's React state does not hold, so that a payment on them is not
\* found, while an earlier payment has been written.
C23_Witness ==
  /\ hist.paid # {}
  /\ \E c \in Clients :
        /\ \E id \in DOMAIN db.transactions \ DOMAIN mem[c].transactions :
              db.transactions[id].remaining_amount > 0
        /\ \E id \in DOMAIN db.rentals \ DOMAIN mem[c].rentals :
              db.rentals[id].remaining_amount > 0

\* C24: the days of the entries an addRental creates, every store call
\* succeeding, depend only on the calendar days of start and end, not on their
\* time of day: they are the days from the start day to the end day, one entry a
\* day, so one entry when both fall on the same day, and the end day is among
\* them also when the start's time of day is later than the end's.
C24_CalendarDaysOnly ==
  [][\A rentalData \in RentalRequests, c \in SeqClients :
       (/\ AddRental(c, rentalData, {})
        /\ Len(db'.rentals) > Len(db.rentals)
        /\ DayOf(rentalData.rentalStartDate) <= DayOf(rentalData.rentalEndDate))
       => LET created == db'.calendar \ db.calendar
              first == DayOf(rentalData.rentalStartDate)
              last == DayOf(rentalData.rentalEndDate)
          IN  /\ {x.reserved_date : x \in created} = first..last
              /\ Cardinality(created) = last - first + 1
    ]_vars

\* C25: addRental and addTransaction store the payment fields of the request:
\* a row not paid on since its creation with requested amountPaid a and total t
\* holds amount_paid a (0 included), remaining_amount max(0, t - a) and the
\* payment_status derived from them (pending when a is 0 and t > 0, partial when
\* 0 < a < t, completed when nothing remains).
C25_RequestPersisted ==
  /\ \A id \in DOMAIN db.rentals :
        LET a == hist.requested.rental[id]
            t == db.rentals[id].total_amount
        IN  <<"rental", id>> \notin hist.paid
            => Balance(db.rentals[id])
                 = <<a, Max(0, t - a), StatusOf(a, Max(0, t - a))>>
  /\ \A id \in DOMAIN db.transactions :
        LET a == hist.requested.transaction[id]
            t == db.transactions[id].total_amount
        IN  <<"transaction", id>> \notin hist.paid
            => Balance(db.transactions[id])
                 = <<a, Max(0, t - a), StatusOf(a, Max(0, t - a))>>

\* C27: reservations are independent per product and per rental.  An addRental
\* on product P keeps every existing calendar row and adds only rows of P owned by
\* the new rental; an updateRentalStatus of rental R leaves every row not owned
\* by R as it was; so checkProductAvailability of any other product answers the
\* same before and after either call, whichever store call fails.
C27_ReservationsIndependent ==
  /\ \A c \in SeqClients, rentalData \in RentalRequests, f \in AddRentalFailures :
        LET r == AddRentalRun(db, mem[c], rentalData, f)
            id == Len(db.rentals) + 1
        IN  /\ db.calendar \subseteq r.db.calendar
            /\ \A x \in r.db.calendar \ db.calendar :
                  x.product_id = rentalData.productId /\ x.rental_id = id
            /\ \A p \in Products \ {rentalData.productId}, s \in Instants, e \in Instants :
                  CheckProductAvailability(r.db, p, s, e, TRUE)
                    = CheckProductAvailability(db, p, s, e, TRUE)
  /\ \A c \in SeqClients, id \in 1..MaxRentals, status \in RentalStatuses,
        f \in UpdateRentalStatusFailures :
        LET r == UpdateRentalStatusRun(db, mem[c], id, status, f)
        IN  /\ {x \in r.db.calendar : x.rental_id # id}
                 = {x \in db.calendar : x.rental_id # id}
            /\ \A p \in Products, s \in Instants, e \in Instants :
                  (id \in DOMAIN db.rentals /\ p # db.rentals[id].product_id)
                  => CheckProductAvailability(r.db, p, s, e, TRUE)
                       = CheckProductAvailability(db, p, s, e, TRUE)

\* C27 witness: a returned rental's entry has been released while another,
\* active rental keeps its reserved entry.
C27_Witness ==
  \E x \in db.calendar, y \in db.calendar :
     /\ x.rental_id # y.rental_id
     /\ x.status = "available"
     /\ y.status = "reserved"
     /\ db.rentals[x.rental_id].status = "returned"
     /\ db.rentals[y.rental_id].status = "active"

\* C28: in every state reached by addRental and updateRentalStatus calls, with
\* any status argument, no two rentals of one product that are both stored active
\* have day ranges sharing a day, and every active rental has a reserved entry of
\* its own for each of its days.
C28_ActiveRentalsReserved ==
  /\ \A i \in DOMAIN db.rentals, j \in DOMAIN db.rentals :
        (i # j /\ db.rentals[i].status = "active" /\ db.rentals[j].status = "active")
        => ~RowsOverlap(db.rentals[i], db.rentals[j])
  /\ \A i \in DOMAIN db.rentals :
        db.rentals[i].status = "active"
        => \A day \in db.rentals[i].rental_start_date..db.rentals[i].rental_end_date :
              \E x \in Owned(db.calendar, i) :
                 x.reserved_date = day /\ x.status = "reserved"

\* C29: once an active rental of product P over the days first..last has been
\* returned, checkProductAvailability of P over these days is true again, an
\* addRental of P over any sub-range of them succeeds, and after it
\* getProductAvailability of the month lists each day of the sub-range among the
\* reserved dates and not among the available dates, although the returned
\* rental's available entries for these days are still stored.
C29_RebookAfterRelease ==
  [][\A c \in SeqClients, id \in DOMAIN db.rentals :
       (/\ UpdateRentalStatus(c, id, "returned", {})
        /\ db.rentals[id].status = "active")
       => LET p == db.rentals[id].product_id
              first == db.rentals[id].rental_start_date
              last == db.rentals[id].rental_end_date
          IN  /\ CheckProductAvailability(db', p, ParseISODate(first),
                                          ParseISODate(last), TRUE)
              /\ \A s \in first..last, e \in first..last :
                    s <= e =>
                    LET r == AddRentalRun(db', mem'[c],
                                RentalRequest(p, ParseISODate(s), ParseISODate(e),
                                              PaymentFields(1, 1)), {})
                    IN  /\ r.ret.ok
                        /\ \A day \in s..e :
                              /\ \E x \in Owned(db'.calendar, id) :
                                    x.reserved_date = day /\ x.status = "available"
                              /\ \A month \in MonthInstants :
                                    MonthOf(month, tz) = day \div DaysInMonth =>
                                    LET a == GetProductAvailability(r.db, p, month, tz, TRUE)
                                    IN  /\ day \in {LocalDay(a.reservedDates[x], tz) :
                                                      x \in DOMAIN a.reservedDates}
                                        /\ day \notin {LocalDay(t, tz) : t \in a.availableDates}
    ]_vars

\* C26: the stored stock of every product is never negative after any sequence
\* of updateStock and addTransaction calls, and rentals never change stock:
\* addRental, updateRentalStatus and an addTransaction of type rental leave the
\* stock of every product as it was, whichever store call fails.
C26_StockNeverNegative ==
  /\ \A p \in Products : db.products[p] >= 0
  /\ \A c \in Clients :
        /\ \A rentalData \in StockRentalRequests, f \in AddRentalFailures :
              AddRentalRun(db, mem[c], rentalData, f).db.products = db.products
        /\ \A id \in 1..MaxRentals, status \in RentalStatuses,
              f \in UpdateRentalStatusFailures :
              UpdateRentalStatusRun(db, mem[c], id, status, f).db.products = db.products
        /\ \A transactionData \in StockRequests, f \in AddTransactionFailures :
              transactionData.type = "rental"
              => AddTransactionRun(db, mem[c], transactionData, f).db.products
                   = db.products

\* C26 witness: a sale of more pieces than any stock has been recorded and the
\* stock is at its floor, while the product has been rented out and taken back.
C26_Witness ==
  /\ db.products["P1"] = 0
  /\ \E i \in DOMAIN db.transactions :
        /\ db.transactions[i].type = "sale"
        /\ db.transactions[i].quantity > MaxStock
  /\ \E i \in DOMAIN db.rentals : db.rentals[i].status = "returned"
  /\ \E c \in Clients : "P1" \in DOMAIN mem[c].products /\ mem[c].products["P1"] = 0

\* C30: every sale that addTransaction records reduces the stored stock of its
\* product by the sold quantity, floored at 0, whichever client sells and whatever
\* its React state holds: no sale is recorded whose stock decrement is skipped or
\* computed from an out-of-date stock.
C30_SaleReducesStock ==
  [][\A c \in Clients, transactionData \in StockRequests :
       (/\ AddTransaction(c, transactionData, {})
        /\ transactionData.type = "sale")
       => db'.products[transactionData.productId]
            = Max(0, db.products[transactionData.productId] - transactionData.quantity)
    ]_vars

====
